---- MODULE Spec2Model ----
(***************************************************************************)
(* Model of drivers/media/radio/radio-rda5807.c: the RDA5807 FM tuner      *)
(* driver.  The device is a bank of 16-bit registers behind an I2C bus;    *)
(* every driver entry point is a sequence of bus transactions, each of     *)
(* which is one atomic step of the calling thread.  The driver takes no    *)
(* lock, so steps of different callers may interleave (SpecRace); Spec     *)
(* lets one call run at a time.                                            *)
(***************************************************************************)
EXTENDS Integers, Sequences, FiniteSets, TLC

----------------------------------------------------------------------------
(* Bounds of the model *)

\* Top-level driver calls started in one behaviour.
MaxCalls == 4

----------------------------------------------------------------------------
(* 16-bit arithmetic *)

Pow16 == 2 ^ 16

U16 == 0 .. 65535

RECURSIVE BitAnd(_, _)
BitAnd(a, b) ==
  IF a = 0 \/ b = 0 THEN 0
  ELSE (a % 2) * (b % 2) + 2 * BitAnd(a \div 2, b \div 2)

BitOr(a, b) == a + b - BitAnd(a, b)

\* ~m, seen through a 16-bit operand
Not16(m) == 65535 - m

\* conversion to u16
ToU16(x) == x % Pow16

BIT(n) == 2 ^ n

----------------------------------------------------------------------------
(* Register map and bit fields *)

RDA5807_REG_CHIPID == 0
RDA5807_REG_CTRL == 2
RDA5807_REG_CHAN == 3
RDA5807_REG_IOCFG == 4
RDA5807_REG_INTM_THRESH_VOL == 5
RDA5807_REG_SEEK_RESULT == 10
RDA5807_REG_SIGNAL == 11

\* enum rda5807_reg
Regs ==
  { RDA5807_REG_CHIPID, RDA5807_REG_CTRL, RDA5807_REG_CHAN, RDA5807_REG_IOCFG,
    RDA5807_REG_INTM_THRESH_VOL, RDA5807_REG_SEEK_RESULT, RDA5807_REG_SIGNAL }

RDA5807_MASK_CTRL_DMUTE == BIT(14)
RDA5807_MASK_CTRL_ENABLE == BIT(0)

RDA5807_SHIFT_CHAN_WRCHAN == 6
RDA5807_MASK_CHAN_WRCHAN == 1023 * BIT(RDA5807_SHIFT_CHAN_WRCHAN)
RDA5807_MASK_CHAN_TUNE == BIT(4)
RDA5807_SHIFT_CHAN_BAND == 2
RDA5807_MASK_CHAN_BAND == 3 * BIT(RDA5807_SHIFT_CHAN_BAND)
RDA5807_SHIFT_CHAN_SPACE == 0
RDA5807_MASK_CHAN_SPACE == 3 * BIT(RDA5807_SHIFT_CHAN_SPACE)

RDA5807_MASK_SEEKRES_COMPLETE == BIT(14)
RDA5807_MASK_SEEKRES_FAIL == BIT(13)
RDA5807_MASK_SEEKRES_STEREO == BIT(10)

RDA5807_MASK_DEEMPHASIS == BIT(11)

RDA5807_SHIFT_VOLUME_DAC == 0
RDA5807_MASK_VOLUME_DAC == 15 * BIT(RDA5807_SHIFT_VOLUME_DAC)

RDA5807_SHIFT_RSSI == 9
RDA5807_MASK_RSSI == 127 * BIT(RDA5807_SHIFT_RSSI)

RDA5807_FREQ_MIN_KHZ == 76000
RDA5807_FREQ_MAX_KHZ == 108000

\* errno values the driver returns (negated)
EIO == 5
ENOMEM == 12
ENODEV == 19
EINVAL == 22
ERANGE == 34

\* errors of the I2C adapter itself (i2c_transfer's negative results):
\* -ENXIO and -ETIMEDOUT
BusErrors == { -6, -110 }

\* V4L2 identifiers used by the driver
V4L2_CID_AUDIO_MUTE == "V4L2_CID_AUDIO_MUTE"
V4L2_CID_AUDIO_VOLUME == "V4L2_CID_AUDIO_VOLUME"
V4L2_CID_TUNE_PREEMPHASIS == "V4L2_CID_TUNE_PREEMPHASIS"
V4L2_PREEMPHASIS_DISABLED == 0
V4L2_PREEMPHASIS_50_uS == 1
V4L2_PREEMPHASIS_75_uS == 2
V4L2_TUNER_RADIO == 1
V4L2_TUNER_SUB_MONO == 1
V4L2_TUNER_SUB_STEREO == 2

----------------------------------------------------------------------------
(* The driver's pure computations *)

\* rda5807_update_reg: val |= ((u16)err & ~mask)
UpdateRegVal(cur, mask, val) == BitOr(val, BitAnd(cur, Not16(mask)))

\* rda5807_set_enable: u16 val = enabled ? ENABLE : 0
SetEnableVal(enabled) == IF enabled # 0 THEN RDA5807_MASK_CTRL_ENABLE ELSE 0

\* SetMuteVal setting DMUTE when muted
SetMuteValInverted(muted) == IF muted # 0 THEN RDA5807_MASK_CTRL_DMUTE ELSE 0

\* rda5807_set_mute: u16 val = muted ? 0 : DMUTE
SetMuteVal(muted) == IF muted # 0 THEN 0 ELSE RDA5807_MASK_CTRL_DMUTE

\* SetVolumeVal shifting the volume one bit too far
SetVolumeValShifted(volume) == ToU16(volume * BIT(RDA5807_SHIFT_VOLUME_DAC + 1))

\* rda5807_set_volume: volume << SHIFT_VOLUME_DAC, passed as u16
SetVolumeVal(volume) == ToU16(volume * BIT(RDA5807_SHIFT_VOLUME_DAC))

\* SetPreemphasisVal setting the bit for 75 us
SetPreemphasisValFor75(preemp) ==
  IF preemp = V4L2_PREEMPHASIS_75_uS THEN RDA5807_MASK_DEEMPHASIS ELSE 0

\* rda5807_set_preemphasis: preemp == 50 us ? DEEMPHASIS : 0
SetPreemphasisVal(preemp) ==
  IF preemp = V4L2_PREEMPHASIS_50_uS THEN RDA5807_MASK_DEEMPHASIS ELSE 0

\* FreqInRange with both comparisons made non-strict: the band's two end
\* frequencies are rejected
FreqInRangeExclusive(freq_khz) ==
  ~(freq_khz <= RDA5807_FREQ_MIN_KHZ) /\ ~(freq_khz >= RDA5807_FREQ_MAX_KHZ)

\* rda5807_set_frequency: the two range tests; a frequency that passes neither
\* is in range
FreqInRange(freq_khz) ==
  ~(freq_khz < RDA5807_FREQ_MIN_KHZ) /\ ~(freq_khz > RDA5807_FREQ_MAX_KHZ)

\* ChanIndex without the rounding term
ChanIndexTruncating(freq_khz) == (freq_khz - RDA5807_FREQ_MIN_KHZ) \div 50

\* rda5807_set_frequency: (freq_khz - MIN + 25) / 50, for freq_khz >= MIN
ChanIndex(freq_khz) == (freq_khz - RDA5807_FREQ_MIN_KHZ + 25) \div 50

\* SetFrequencyMask without the band field
SetFrequencyMaskNoBand ==
  BitOr(BitOr(RDA5807_MASK_CHAN_SPACE, RDA5807_MASK_CHAN_WRCHAN),
        RDA5807_MASK_CHAN_TUNE)

\* rda5807_set_frequency: the mask accumulated by the four mask |= lines
SetFrequencyMask ==
  BitOr(BitOr(BitOr(RDA5807_MASK_CHAN_BAND, RDA5807_MASK_CHAN_SPACE),
              RDA5807_MASK_CHAN_WRCHAN),
        RDA5807_MASK_CHAN_TUNE)

\* rda5807_set_frequency: the u16 val accumulated by the four val |= lines
SetFrequencyVal(freq_khz) ==
  LET v1 == ToU16(BitOr(0, 2 * BIT(RDA5807_SHIFT_CHAN_BAND)))
      v2 == ToU16(BitOr(v1, 2 * BIT(RDA5807_SHIFT_CHAN_SPACE)))
      v3 == ToU16(BitOr(v2, ChanIndex(freq_khz) * BIT(RDA5807_SHIFT_CHAN_WRCHAN)))
  IN  ToU16(BitOr(v3, RDA5807_MASK_CHAN_TUNE))

\* A __u32 is held as <<high half, low half>>, both 16 bits wide, so that no
\* intermediate value leaves the model checker's integer range.
U32Of(hi, lo) == <<hi, lo>>

\* a->frequency * 625 in __u32 arithmetic (the product wraps modulo 2^32)
Mul625(f) ==
  LET plo == f[2] * 625
      phi == f[1] * 625 + plo \div Pow16
  IN  U32Of(phi % Pow16, plo % Pow16)

\* a __u32 divided by 10000; the quotient is below 2^19
Div10000(p) ==
  LET a == p[1] \div 10000
      b == p[1] % 10000
  IN  a * Pow16 + (b * Pow16 + p[2]) \div 10000

\* rda5807_vidioc_s_frequency: (a->frequency * 625) / 10000
FreqToKhz(f) == Div10000(Mul625(f))

\* GTunerReadFailed as if (err) return err
GTunerReadFailedNonZero(err) == err # 0

\* rda5807_vidioc_g_tuner: if (err < 0) return err, after each read
GTunerReadFailed(err) == err < 0

\* RxSubchans testing the seek-complete bit alone
RxSubchansIgnoringFail(seekres) ==
  IF BitAnd(seekres, RDA5807_MASK_SEEKRES_COMPLETE) = RDA5807_MASK_SEEKRES_COMPLETE
  THEN IF BitAnd(seekres, RDA5807_MASK_SEEKRES_STEREO) # 0
       THEN V4L2_TUNER_SUB_STEREO
       ELSE V4L2_TUNER_SUB_MONO
  ELSE BitOr(V4L2_TUNER_SUB_MONO, V4L2_TUNER_SUB_STEREO)

\* rda5807_vidioc_g_tuner: rxsubchans from the SEEK_RESULT value
RxSubchans(seekres) ==
  IF BitAnd(seekres, BitOr(RDA5807_MASK_SEEKRES_COMPLETE, RDA5807_MASK_SEEKRES_FAIL))
       = RDA5807_MASK_SEEKRES_COMPLETE
  THEN IF BitAnd(seekres, RDA5807_MASK_SEEKRES_STEREO) # 0
       THEN V4L2_TUNER_SUB_STEREO
       ELSE V4L2_TUNER_SUB_MONO
  ELSE BitOr(V4L2_TUNER_SUB_MONO, V4L2_TUNER_SUB_STEREO)

\* rda5807_vidioc_g_tuner: signal = ((u16)err & MASK_RSSI) >> SHIFT_RSSI
RssiField(v) == ToU16(BitAnd(v, RDA5807_MASK_RSSI) \div BIT(RDA5807_SHIFT_RSSI))

\* TunerSignal shifting by the field's own shift less one
TunerSignalShort(v) == RssiField(v) * BIT(16 - 8)

\* rda5807_vidioc_g_tuner: .signal = signal << (16 - 7)
TunerSignal(v) == RssiField(v) * BIT(16 - 7)

\* ChipIdMatches testing the low byte
ChipIdMatchesLowByte(chipid) == BitAnd(chipid, 255) = 88

\* rda5807_i2c_probe: (chipid & 0xFF00) != 0x5800 is the mismatch
ChipIdMatches(chipid) == BitAnd(chipid, 65280) = 22528

\* i2c_transfer on n messages: an adapter error, or the count of messages done
I2cTransferResults(n) == BusErrors \cup (0 .. n)

\* I2cReadResult returning the register content as a signed 16-bit value
I2cReadResultSigned(x, v) ==
  IF x < 0 THEN x
  ELSE IF x < 2 THEN -EIO
  ELSE IF v >= 32768 THEN v - Pow16 ELSE v

\* rda5807_i2c_read: the int it returns, x being i2c_transfer's result and v
\* the register content
I2cReadResult(x, v) ==
  IF x < 0 THEN x
  ELSE IF x < 2 THEN -EIO
  ELSE v

\* rda5807_i2c_write: the int it returns
I2cWriteResult(x) ==
  IF x < 0 THEN x
  ELSE IF x < 1 THEN -EIO
  ELSE 0

----------------------------------------------------------------------------
(* State *)

\* Callers that may be inside the driver: user threads in an ioctl, the I2C
\* core in probe or remove, the PM core in suspend or resume.
Threads == { "t1", "t2" }

VARIABLES
  regs,    \* the chip's registers: [Regs -> U16]
  th,      \* th[t]: where caller t is in the driver, and its locals
  sess,    \* the device session's state
  res,     \* what probe has allocated or registered and not yet released
  ctrl,    \* the V4L2 control framework's current control values
  calls    \* driver calls started so far

vars == <<regs, th, sess, res, ctrl, calls>>

\* struct rda5807_driver's parts: the kzalloc'ed object, the control handler's
\* controls, the registered video device
AllResources == { "radio", "ctrl_handler", "video_dev" }

\* a caller outside the driver
Idle ==
  [ pc |-> "idle", op |-> "none", cont |-> "none", rv |-> 0,
    ctl |-> "none", cval |-> 0, err1 |-> 0,
    fn |-> "none", reg |-> 0, mask |-> 0, val |-> 0, arg |-> 0,
    index |-> 0, type |-> 0, freq |-> <<0, 0>>, khz |-> 0, rxsubchans |-> 0,
    setup |-> 0, ret |-> 0, out |-> [written |-> FALSE], log |-> <<>> ]

\* the log entry of one register read and of one register write: the function
\* that issued it, the register, the value written, and the int that
\* rda5807_i2c_read / rda5807_i2c_write returned
ReadEntry(fn, reg, r) ==
  [ kind |-> "read", fn |-> fn, reg |-> reg, val |-> 0, res |-> r ]
WriteEntry(fn, reg, v, r) ==
  [ kind |-> "write", fn |-> fn, reg |-> reg, val |-> v, res |-> r ]

\* th[t] becomes r
Become(t, r) == th' = [th EXCEPT ![t] = r]

\* the driver function returns v to the top-level caller
Done(r, v) == [r EXCEPT !.pc = "done", !.ret = v]

\* rda5807_update_reg(radio, reg, mask, val) is entered by fn; its result goes
\* to the program point cont.  The local val is overwritten by the merge; arg
\* keeps the value that was passed.
CallUpdateReg(r, fn, reg, mask, val, cont) ==
  [r EXCEPT !.pc = "update_reg", !.fn = fn, !.reg = reg, !.mask = mask,
            !.val = val, !.arg = val, !.cont = cont]

\* rda5807_update_reg returns err
UpdateRegReturn(r, err) ==
  IF r.cont = "done" THEN Done(r, err)
  ELSE [r EXCEPT !.pc = r.cont, !.rv = err]

\* the encoders: each is one call of rda5807_update_reg
CallSetEnable(r, enabled, cont) ==
  CallUpdateReg(r, "set_enable", RDA5807_REG_CTRL, RDA5807_MASK_CTRL_ENABLE,
                SetEnableVal(enabled), cont)

CallSetMute(r, muted, cont) ==
  CallUpdateReg(r, "set_mute", RDA5807_REG_CTRL, RDA5807_MASK_CTRL_DMUTE,
                SetMuteVal(muted), cont)

\* CallSetVolume keeping the volume in the low bits of CTRL
CallSetVolumeInCtrl(r, volume, cont) ==
  CallUpdateReg(r, "set_volume", RDA5807_REG_CTRL,
                RDA5807_MASK_VOLUME_DAC, SetVolumeVal(volume), cont)

CallSetVolume(r, volume, cont) ==
  CallUpdateReg(r, "set_volume", RDA5807_REG_INTM_THRESH_VOL,
                RDA5807_MASK_VOLUME_DAC, SetVolumeVal(volume), cont)

\* CallSetPreemphasis addressing register 0x0B for 0x04
CallSetPreemphasisInSignal(r, preemp, cont) ==
  CallUpdateReg(r, "set_preemphasis", RDA5807_REG_SIGNAL,
                RDA5807_MASK_DEEMPHASIS, SetPreemphasisVal(preemp), cont)

CallSetPreemphasis(r, preemp, cont) ==
  CallUpdateReg(r, "set_preemphasis", RDA5807_REG_IOCFG,
                RDA5807_MASK_DEEMPHASIS, SetPreemphasisVal(preemp), cont)

\* !x of C
LNot(x) == IF x = 0 THEN 1 ELSE 0

\* the default values probe declares for its three controls
CtrlDefaults ==
  [ mute |-> 1, volume |-> 8, preemphasis |-> V4L2_PREEMPHASIS_50_uS ]

\* the controls in the order probe creates them
CtrlOrder ==
  << V4L2_CID_AUDIO_MUTE, V4L2_CID_AUDIO_VOLUME, V4L2_CID_TUNE_PREEMPHASIS >>

CtrlField(id) ==
  CASE id = V4L2_CID_AUDIO_MUTE -> "mute"
    [] id = V4L2_CID_AUDIO_VOLUME -> "volume"
    [] id = V4L2_CID_TUNE_PREEMPHASIS -> "preemphasis"

\* the values the framework accepts for a control (its declared range)
CtrlRange(id) ==
  CASE id = V4L2_CID_AUDIO_MUTE -> 0 .. 1
    [] id = V4L2_CID_AUDIO_VOLUME -> 0 .. 15
    [] id = V4L2_CID_TUNE_PREEMPHASIS ->
         (0 .. V4L2_PREEMPHASIS_75_uS) \ { V4L2_PREEMPHASIS_DISABLED }

----------------------------------------------------------------------------
(* Inputs *)

\* chip-ID register contents: two RDA58xx parts, and three that are not
ChipIds == { 22532, 22536, 22272, 88, 65535 }

\* what the chip holds when the driver first sees it: <<the content of the
\* control, channel, I/O and volume registers, SEEK_RESULT, SIGNAL>>.  The
\* SEEK_RESULT values are: complete and mono, complete and stereo, complete
\* but failed.
ChipImages ==
  { <<0, BIT(14), 0>>,
    <<65535, BIT(14) + BIT(10) + 1023, 65535>>,
    <<42405, BIT(14) + BIT(13) + BIT(10), 42 * BIT(9) + 1>> }

\* the registers of a chip with chip-ID id and image im
ChipRegs(id, im) ==
  [ r \in Regs |->
      CASE r = RDA5807_REG_CHIPID -> id
        [] r = RDA5807_REG_SEEK_RESULT -> im[2]
        [] r = RDA5807_REG_SIGNAL -> im[3]
        [] OTHER -> im[1] ]

VolumeArgs == { 0, 5, 15 }

\* a->frequency arguments, in units of 1/16 kHz:
\* 75999.9, 76000, 98000, 108000 and 108001 kHz, and 8087948 (505496 kHz)
FrequencyArgs ==
  { U32Of(18, 36351), U32Of(18, 36352), U32Of(23, 60672), U32Of(26, 24064),
    U32Of(26, 24080), U32Of(123, 27020) }

IndexArgs == { 0, 1 }

\* struct v4l2_frequency arguments <<tuner, type, frequency>>: every frequency
\* for the radio tuner, and one call each with a wrong tuner and a wrong type
SFrequencyArgs ==
  { <<0, V4L2_TUNER_RADIO, f>> : f \in FrequencyArgs }
    \cup { <<1, V4L2_TUNER_RADIO, U32Of(23, 60672)>>, <<0, 2, U32Of(23, 60672)>> }

----------------------------------------------------------------------------
(* Initial state: the chip is powered, the driver is not bound *)

Init ==
  /\ \E id \in ChipIds, im \in ChipImages : regs = ChipRegs(id, im)
  /\ th = [t \in Threads |-> Idle]
  /\ sess = "Uninitialized"
  /\ res = {}
  /\ ctrl = CtrlDefaults
  /\ calls = 0

----------------------------------------------------------------------------
(* Entry into the driver *)

OthersIdle(t) == \A u \in Threads \ {t} : th[u].pc = "idle"

\* caller t enters the driver at program point pc
Enter(t, r) ==
  /\ th[t].pc = "idle"
  /\ calls < MaxCalls
  /\ calls' = calls + 1
  /\ Become(t, r)

\* the I2C core binds the driver: rda5807_i2c_probe(client, id)
CallProbe(t) ==
  /\ sess = "Uninitialized"
  /\ \A u \in Threads : th[u].pc = "idle"
  /\ Enter(t, [Idle EXCEPT !.pc = "probe", !.op = "probe"])
  /\ sess' = "Probing"
  /\ UNCHANGED <<regs, res, ctrl>>

\* the control framework calls rda5807_s_ctrl because control id changes to v
CallSCtrl(t) ==
  /\ sess = "Active"
  /\ \E id \in { V4L2_CID_AUDIO_MUTE, V4L2_CID_AUDIO_VOLUME,
                 V4L2_CID_TUNE_PREEMPHASIS } :
       \E v \in CtrlRange(id) :
         /\ id = V4L2_CID_AUDIO_VOLUME => v \in VolumeArgs
         /\ v # ctrl[CtrlField(id)]
         /\ Enter(t, [Idle EXCEPT !.pc = "s_ctrl", !.op = "s_ctrl",
                                  !.ctl = id, !.cval = v])
  /\ UNCHANGED <<regs, sess, res, ctrl>>

\* VIDIOC_S_FREQUENCY
CallSFrequency(t) ==
  /\ sess = "Active"
  /\ \E a \in SFrequencyArgs :
       Enter(t, [Idle EXCEPT !.pc = "s_frequency", !.op = "s_frequency",
                             !.index = a[1], !.type = a[2], !.freq = a[3]])
  /\ UNCHANGED <<regs, sess, res, ctrl>>

\* VIDIOC_G_TUNER
CallGTuner(t) ==
  /\ sess = "Active"
  /\ \E i \in IndexArgs :
       Enter(t, [Idle EXCEPT !.pc = "g_tuner", !.op = "g_tuner", !.index = i])
  /\ UNCHANGED <<regs, sess, res, ctrl>>

\* VIDIOC_G_AUDIO
CallGAudio(t) ==
  /\ sess = "Active"
  /\ \E i \in IndexArgs :
       Enter(t, [Idle EXCEPT !.pc = "g_audio", !.op = "g_audio", !.index = i])
  /\ UNCHANGED <<regs, sess, res, ctrl>>

\* the PM core suspends the device
CallSuspend(t) ==
  /\ sess = "Active"
  /\ \A u \in Threads : th[u].op \notin { "suspend", "resume", "remove" }
  /\ Enter(t, [Idle EXCEPT !.pc = "suspend", !.op = "suspend"])
  /\ UNCHANGED <<regs, sess, res, ctrl>>

\* the PM core resumes the device
CallResume(t) ==
  /\ sess = "Suspended"
  /\ \A u \in Threads : th[u].op \notin { "suspend", "resume", "remove" }
  /\ Enter(t, [Idle EXCEPT !.pc = "resume", !.op = "resume"])
  /\ UNCHANGED <<regs, sess, res, ctrl>>

\* the I2C core unbinds the driver: rda5807_i2c_remove(client)
CallRemove(t) ==
  /\ sess \in { "Active", "Suspended" }
  /\ \A u \in Threads : th[u].pc = "idle"
  /\ Enter(t, [Idle EXCEPT !.pc = "remove", !.op = "remove"])
  /\ UNCHANGED <<regs, sess, res, ctrl>>

\* the call has returned and its caller has taken the result
Finish(t) ==
  /\ th[t].pc = "done"
  /\ Become(t, Idle)
  /\ UNCHANGED <<regs, sess, res, ctrl, calls>>

----------------------------------------------------------------------------
(* rda5807_update_reg: one register read, then one register write *)

\* err = rda5807_i2c_read(client, reg); if (err >= 0) val |= (u16)err & ~mask
UpdateRegRead(t) ==
  LET r == th[t] IN
  /\ r.pc = "update_reg"
  /\ \E x \in I2cTransferResults(2) :
       LET err == I2cReadResult(x, regs[r.reg])
           lg  == [r EXCEPT !.log = Append(r.log, ReadEntry(r.fn, r.reg, err))]
       IN  IF err >= 0
           THEN Become(t, [lg EXCEPT !.pc = "update_reg_write",
                                     !.val = UpdateRegVal(ToU16(err), r.mask, r.val)])
           ELSE Become(t, UpdateRegReturn(lg, err))
  /\ UNCHANGED <<regs, sess, res, ctrl, calls>>

\* err = rda5807_i2c_write(client, reg, val); return err
UpdateRegWrite(t) ==
  LET r == th[t] IN
  /\ r.pc = "update_reg_write"
  /\ \E x \in I2cTransferResults(1) :
       LET err == I2cWriteResult(x)
           lg  == [r EXCEPT !.log =
                     Append(r.log, WriteEntry(r.fn, r.reg, r.val, err))]
       IN  /\ regs' = IF err = 0 THEN [regs EXCEPT ![r.reg] = r.val] ELSE regs
           /\ Become(t, UpdateRegReturn(lg, err))
  /\ UNCHANGED <<sess, res, ctrl, calls>>

----------------------------------------------------------------------------
(* rda5807_s_ctrl *)

\* the switch on ctrl->id, up to the first register update
SCtrl(t) ==
  LET r == th[t] IN
  /\ r.pc = "s_ctrl"
  /\ Become(t,
       CASE r.ctl = V4L2_CID_AUDIO_MUTE ->
              CallSetEnable(r, LNot(r.cval), "s_ctrl_mute")
         [] r.ctl = V4L2_CID_AUDIO_VOLUME ->
              CallSetVolume(r, r.cval, "s_ctrl_ret")
         [] r.ctl = V4L2_CID_TUNE_PREEMPHASIS ->
              CallSetPreemphasis(r, r.cval, "s_ctrl_ret")
         [] OTHER -> [r EXCEPT !.pc = "s_ctrl_ret", !.rv = -EINVAL])
  /\ UNCHANGED <<regs, sess, res, ctrl, calls>>

\* case V4L2_CID_AUDIO_MUTE: err1 is set; int err2 = rda5807_set_mute(...)
SCtrlMute(t) ==
  LET r == th[t] IN
  /\ r.pc = "s_ctrl_mute"
  /\ Become(t, CallSetMute([r EXCEPT !.err1 = r.rv], r.cval, "s_ctrl_ret"))
  /\ UNCHANGED <<regs, sess, res, ctrl, calls>>

\* SCtrlResult as err2 ? err2 : err1
SCtrlResultMuteFirst(r) ==
  IF r.ctl = V4L2_CID_AUDIO_MUTE
  THEN IF r.rv # 0 THEN r.rv ELSE r.err1
  ELSE r.rv

\* what rda5807_s_ctrl returns: err1 ? err1 : err2 for mute, else the
\* encoder's result
SCtrlResult(r) ==
  IF r.ctl = V4L2_CID_AUDIO_MUTE
  THEN IF r.err1 # 0 THEN r.err1 ELSE r.rv
  ELSE r.rv

\* rda5807_s_ctrl returns to the framework: to the ioctl that changed the
\* control, or to v4l2_ctrl_handler_setup in probe
SCtrlReturn(t) ==
  LET r == th[t] IN
  /\ r.pc = "s_ctrl_ret"
  /\ Become(t, [r EXCEPT !.rv = SCtrlResult(r),
                         !.pc = IF r.op = "probe" THEN "handler_setup"
                                ELSE "ctrl_commit"])
  /\ UNCHANGED <<regs, sess, res, ctrl, calls>>

\* the framework makes the new value the control's current value when s_ctrl
\* returned 0, and hands s_ctrl's result to the caller
CtrlCommit(t) ==
  LET r == th[t] IN
  /\ r.pc = "ctrl_commit"
  /\ ctrl' = IF r.rv = 0 THEN [ctrl EXCEPT ![CtrlField(r.ctl)] = r.cval] ELSE ctrl
  /\ Become(t, Done(r, r.rv))
  /\ UNCHANGED <<regs, sess, res, calls>>

----------------------------------------------------------------------------
(* rda5807_vidioc_s_frequency and rda5807_set_frequency *)

VidiocSFrequency(t) ==
  LET r == th[t] IN
  /\ r.pc = "s_frequency"
  /\ Become(t,
       IF r.index # 0 THEN Done(r, -EINVAL)
       ELSE IF r.type # V4L2_TUNER_RADIO THEN Done(r, -EINVAL)
       ELSE [r EXCEPT !.pc = "set_frequency", !.khz = FreqToKhz(r.freq)])
  /\ UNCHANGED <<regs, sess, res, ctrl, calls>>

SetFrequency(t) ==
  LET r == th[t] IN
  /\ r.pc = "set_frequency"
  /\ Become(t,
       IF ~FreqInRange(r.khz) THEN Done(r, -ERANGE)
       ELSE CallUpdateReg(r, "set_frequency", RDA5807_REG_CHAN, SetFrequencyMask,
                          SetFrequencyVal(r.khz), "done"))
  /\ UNCHANGED <<regs, sess, res, ctrl, calls>>

----------------------------------------------------------------------------
(* rda5807_vidioc_g_audio and rda5807_vidioc_g_tuner *)

VidiocGAudio(t) ==
  LET r == th[t] IN
  /\ r.pc = "g_audio"
  /\ Become(t,
       IF r.index # 0 THEN Done(r, -EINVAL)
       ELSE Done([r EXCEPT !.out = [written |-> TRUE, name |-> "Radio",
                                    capability |-> "STEREO", mode |-> 0]], 0))
  /\ UNCHANGED <<regs, sess, res, ctrl, calls>>

\* the index test and the read of SEEK_RESULT
VidiocGTuner(t) ==
  LET r == th[t] IN
  /\ r.pc = "g_tuner"
  /\ IF r.index # 0
     THEN Become(t, Done(r, -EINVAL))
     ELSE \E x \in I2cTransferResults(2) :
            LET err == I2cReadResult(x, regs[RDA5807_REG_SEEK_RESULT])
                lg  == [r EXCEPT !.log = Append(r.log,
                                   ReadEntry("g_tuner", RDA5807_REG_SEEK_RESULT, err))]
            IN  IF GTunerReadFailed(err)
                THEN Become(t, Done(lg, err))
                ELSE Become(t, [lg EXCEPT !.pc = "g_tuner_signal",
                                          !.rxsubchans = RxSubchans(ToU16(err))])
  /\ UNCHANGED <<regs, sess, res, ctrl, calls>>

\* the read of SIGNAL and the descriptor written to the caller
VidiocGTunerSignal(t) ==
  LET r == th[t] IN
  /\ r.pc = "g_tuner_signal"
  /\ \E x \in I2cTransferResults(2) :
       LET err == I2cReadResult(x, regs[RDA5807_REG_SIGNAL])
           lg  == [r EXCEPT !.log = Append(r.log,
                              ReadEntry("g_tuner", RDA5807_REG_SIGNAL, err))]
       IN  IF GTunerReadFailed(err)
           THEN Become(t, Done(lg, err))
           ELSE Become(t, Done([lg EXCEPT !.out =
                  [ written |-> TRUE, name |-> "FM", type |-> V4L2_TUNER_RADIO,
                    rangelow |-> RDA5807_FREQ_MIN_KHZ * 16,
                    rangehigh |-> RDA5807_FREQ_MAX_KHZ * 16,
                    rxsubchans |-> r.rxsubchans,
                    audmode |-> "STEREO",
                    signal |-> TunerSignal(ToU16(err)),
                    afc |-> 0 ]], 0))
  /\ UNCHANGED <<regs, sess, res, ctrl, calls>>

----------------------------------------------------------------------------
(* rda5807_i2c_probe and rda5807_i2c_remove *)

\* the read of the chip-ID register and the test of its high byte
ProbeChipId(t) ==
  LET r == th[t] IN
  /\ r.pc = "probe"
  /\ \E x \in I2cTransferResults(2) :
       LET chipid == I2cReadResult(x, regs[RDA5807_REG_CHIPID])
           lg     == [r EXCEPT !.log = Append(r.log,
                                 ReadEntry("probe", RDA5807_REG_CHIPID, chipid))]
       IN  IF chipid < 0
           THEN Become(t, Done(lg, chipid)) /\ sess' = "Uninitialized"
           ELSE IF ~ChipIdMatches(chipid)
           THEN Become(t, Done(lg, -ENODEV)) /\ sess' = "Uninitialized"
           ELSE Become(t, [lg EXCEPT !.pc = "probe_alloc"]) /\ sess' = sess
  /\ UNCHANGED <<regs, res, ctrl, calls>>

\* radio = kzalloc(...); if (!radio) return -ENOMEM
ProbeAlloc(t) ==
  LET r == th[t] IN
  /\ r.pc = "probe_alloc"
  /\ \/ /\ Become(t, Done(r, -ENOMEM))
        /\ sess' = "Uninitialized"
        /\ res' = res
     \/ /\ Become(t, [r EXCEPT !.pc = "probe_ctrls"])
        /\ sess' = sess
        /\ res' = res \cup { "radio" }
  /\ UNCHANGED <<regs, ctrl, calls>>

\* v4l2_ctrl_handler_init and the three controls; err = ctrl_handler.error;
\* if (err) goto err_ctrl_free, which frees the handler and radio
ProbeCtrls(t) ==
  LET r == th[t] IN
  /\ r.pc = "probe_ctrls"
  /\ \/ /\ \E err \in { -ENOMEM, -EINVAL } : Become(t, Done(r, err))
        /\ sess' = "Uninitialized"
        /\ res' = {}
        /\ ctrl' = ctrl
     \/ /\ Become(t, [r EXCEPT !.pc = "probe_register"])
        /\ sess' = sess
        /\ res' = res \cup { "ctrl_handler" }
        /\ ctrl' = CtrlDefaults
  /\ UNCHANGED <<regs, calls>>

\* err = video_register_device(...); if (err < 0) goto err_ctrl_free; else
\* v4l2_ctrl_handler_setup is entered
ProbeRegister(t) ==
  LET r == th[t] IN
  /\ r.pc = "probe_register"
  /\ \/ /\ \E err \in { -ENOMEM, -EINVAL } : Become(t, Done(r, err))
        /\ sess' = "Uninitialized"
        /\ res' = {}
     \/ /\ Become(t, [r EXCEPT !.pc = "handler_setup", !.setup = 1, !.rv = 0])
        /\ sess' = sess
        /\ res' = res \cup { "video_dev" }
  /\ UNCHANGED <<regs, ctrl, calls>>

\* v4l2_ctrl_handler_setup: s_ctrl for each control with its default value, in
\* creation order, stopping at the first error
HandlerSetup(t) ==
  LET r == th[t] IN
  /\ r.pc = "handler_setup"
  /\ Become(t,
       IF r.rv < 0 \/ r.setup > Len(CtrlOrder)
       THEN [r EXCEPT !.pc = "probe_ret"]
       ELSE [r EXCEPT !.pc = "s_ctrl", !.setup = r.setup + 1,
                      !.ctl = CtrlOrder[r.setup],
                      !.cval = ctrl[CtrlField(CtrlOrder[r.setup])],
                      !.err1 = 0])
  /\ UNCHANGED <<regs, sess, res, ctrl, calls>>

\* ProbeReturn leaving by err_ctrl_free: the video device stays registered
ProbeReturnKeepingDevice(t) ==
  LET r == th[t] IN
  /\ r.pc = "probe_ret"
  /\ IF r.rv < 0
     THEN /\ Become(t, Done(r, r.rv))
          /\ res' = { "video_dev" }
          /\ sess' = "Uninitialized"
     ELSE /\ Become(t, Done(r, 0))
          /\ res' = res
          /\ sess' = "Active"
  /\ UNCHANGED <<regs, ctrl, calls>>

\* if (err < 0) goto err_video_unreg, which unregisters the device and frees
\* the handler and radio; else return 0
ProbeReturn(t) ==
  LET r == th[t] IN
  /\ r.pc = "probe_ret"
  /\ IF r.rv < 0
     THEN /\ Become(t, Done(r, r.rv))
          /\ res' = {}
          /\ sess' = "Uninitialized"
     ELSE /\ Become(t, Done(r, 0))
          /\ res' = res
          /\ sess' = "Active"
  /\ UNCHANGED <<regs, ctrl, calls>>

\* rda5807_i2c_remove: unregister and free, no register access
Remove(t) ==
  LET r == th[t] IN
  /\ r.pc = "remove"
  /\ Become(t, Done(r, 0))
  /\ res' = {}
  /\ sess' = "Removed"
  /\ UNCHANGED <<regs, ctrl, calls>>

----------------------------------------------------------------------------
(* rda5807_suspend and rda5807_resume *)

Suspend(t) ==
  LET r == th[t] IN
  /\ r.pc = "suspend"
  /\ Become(t, CallSetEnable(r, 0, "pm_ret"))
  /\ UNCHANGED <<regs, sess, res, ctrl, calls>>

\* Resume enabling the receiver whatever the mute control holds
ResumeUnconditional(t) ==
  LET r == th[t] IN
  /\ r.pc = "resume"
  /\ Become(t, CallSetEnable(r, 1, "pm_ret"))
  /\ UNCHANGED <<regs, sess, res, ctrl, calls>>

\* rda5807_resume: enabled = !mute_val; set_enable only if enabled
Resume(t) ==
  LET r == th[t]
      mute_val == ctrl.mute
      enabled  == LNot(mute_val)
  IN
  /\ r.pc = "resume"
  /\ Become(t, IF enabled # 0
               THEN CallSetEnable(r, enabled, "pm_ret")
               ELSE [r EXCEPT !.pc = "pm_ret", !.rv = 0])
  /\ UNCHANGED <<regs, sess, res, ctrl, calls>>

\* suspend or resume returns to the PM core: a suspend that returned 0 leaves
\* the device suspended, a failed one leaves it active; after resume the
\* device is active
PmReturn(t) ==
  LET r == th[t] IN
  /\ r.pc = "pm_ret"
  /\ Become(t, Done(r, r.rv))
  /\ sess' = IF r.op = "suspend" /\ r.rv = 0 THEN "Suspended" ELSE "Active"
  /\ UNCHANGED <<regs, res, ctrl, calls>>

----------------------------------------------------------------------------
(* Specifications *)

\* a step inside the driver
Step(t) ==
  \/ UpdateRegRead(t)
  \/ UpdateRegWrite(t)
  \/ SCtrl(t)
  \/ SCtrlMute(t)
  \/ SCtrlReturn(t)
  \/ CtrlCommit(t)
  \/ VidiocSFrequency(t)
  \/ SetFrequency(t)
  \/ VidiocGAudio(t)
  \/ VidiocGTuner(t)
  \/ VidiocGTunerSignal(t)
  \/ ProbeChipId(t)
  \/ ProbeAlloc(t)
  \/ ProbeCtrls(t)
  \/ ProbeRegister(t)
  \/ HandlerSetup(t)
  \/ ProbeReturn(t)
  \/ Remove(t)
  \/ Suspend(t)
  \/ Resume(t)
  \/ PmReturn(t)

\* a caller enters the driver
Call(t) ==
  \/ CallProbe(t)
  \/ CallSCtrl(t)
  \/ CallSFrequency(t)
  \/ CallGTuner(t)
  \/ CallGAudio(t)
  \/ CallSuspend(t)
  \/ CallResume(t)
  \/ CallRemove(t)

\* one call at a time
Next == \E t \in Threads : (OthersIdle(t) /\ Call(t)) \/ Step(t) \/ Finish(t)

Spec == Init /\ [][Next]_vars

----------------------------------------------------------------------------
(* Calls one at a time, every one of them successful *)

\* no bus transaction has failed and no call has returned an error
NoFailure ==
  \A t \in Threads :
    /\ \A i \in 1 .. Len(th[t].log) : th[t].log[i].res >= 0
    /\ th[t].pc = "done" => th[t].ret = 0

\* a step of Next that leaves no failure behind
NextSuccessful == Next /\ NoFailure'

SpecSuccessful == Init /\ [][NextSuccessful]_vars

----------------------------------------------------------------------------
(* Two concurrent calls *)

\* the registers of an active session whose controls hold c, on a chip that
\* powered on with image im: the control values pushed through rda5807_s_ctrl
ActiveRegs(id, im, c) ==
  [ r \in Regs |->
      CASE r = RDA5807_REG_CTRL ->
             UpdateRegVal(
               UpdateRegVal(im[1], RDA5807_MASK_CTRL_ENABLE,
                            SetEnableVal(LNot(c.mute))),
               RDA5807_MASK_CTRL_DMUTE, SetMuteVal(c.mute))
        [] r = RDA5807_REG_INTM_THRESH_VOL ->
             UpdateRegVal(im[1], RDA5807_MASK_VOLUME_DAC, SetVolumeVal(c.volume))
        [] r = RDA5807_REG_IOCFG ->
             UpdateRegVal(im[1], RDA5807_MASK_DEEMPHASIS,
                          SetPreemphasisVal(c.preemphasis))
        [] OTHER -> ChipRegs(id, im)[r] ]

\* the session is active, muted or not, and nobody is inside the driver
InitRace ==
  /\ \E m \in 0 .. 1 :
       /\ ctrl = [CtrlDefaults EXCEPT !.mute = m]
       /\ regs = ActiveRegs(22532, <<42405, BIT(14), 0>>, ctrl)
  /\ th = [t \in Threads |-> Idle]
  /\ sess = "Active"
  /\ res = AllResources
  /\ calls = 0

\* a call that updates a register
CallWriter(t) ==
  \/ CallSCtrl(t)
  \/ CallSFrequency(t)
  \/ CallSuspend(t)

\* the steps of those calls
StepWriter(t) ==
  \/ UpdateRegRead(t)
  \/ UpdateRegWrite(t)
  \/ SCtrl(t)
  \/ SCtrlMute(t)
  \/ SCtrlReturn(t)
  \/ CtrlCommit(t)
  \/ VidiocSFrequency(t)
  \/ SetFrequency(t)
  \/ Suspend(t)
  \/ PmReturn(t)

\* each caller makes one call; the steps of the two calls interleave at every
\* bus transaction
NextRace == \E t \in Threads : CallWriter(t) \/ StepWriter(t)

SpecRace == InitRace /\ [][NextRace]_vars

----------------------------------------------------------------------------
(* Single functions on wide inputs: caller t1 is placed at the entry of one  *)
(* driver function of an active session and runs it to its return.          *)

\* caller t1 is at r, the registers hold R
Bench(r, R) ==
  /\ th = [t \in Threads |-> IF t = "t1" THEN r ELSE Idle]
  /\ regs = R
  /\ sess = "Active"
  /\ res = AllResources
  /\ ctrl = CtrlDefaults
  /\ calls = 0

\* masks: none, the driver's five fields, two mixed patterns, all
MaskArgs ==
  { 0, RDA5807_MASK_CTRL_ENABLE, RDA5807_MASK_CTRL_DMUTE, RDA5807_MASK_VOLUME_DAC,
    RDA5807_MASK_DEEMPHASIS, SetFrequencyMask, 52428, 255, 65535 }

ValueArgs == { 0, 1, 3, 8, BIT(14), BIT(11), 43690, 65535 }

ContentArgs == { 0, 61680, 42405, 65535 }

\* rda5807_update_reg(radio, reg, mask, val) on a register holding cur
InitUpdate ==
  \E reg \in Regs, mask \in MaskArgs, val \in ValueArgs, cur \in ContentArgs :
    Bench(CallUpdateReg([Idle EXCEPT !.op = "update_reg"], "update_reg",
                        reg, mask, val, "done"),
          [r \in Regs |-> cur])

NextUpdate == \E t \in Threads : UpdateRegRead(t) \/ UpdateRegWrite(t)

SpecUpdate == InitUpdate /\ [][NextUpdate]_vars

\* freq_khz arguments of rda5807_set_frequency: every value from 1 MHz below
\* the band to 1 MHz above it, and the ends of what a->frequency can give
KhzBand == 75000 .. 109000

KhzEnds == { 0, 1, 429495, 429496 }

InitFrequency ==
  \E far \in BOOLEAN :
  \E khz \in IF far THEN KhzEnds ELSE KhzBand :
    Bench([Idle EXCEPT !.pc = "set_frequency", !.op = "set_frequency",
                       !.khz = khz],
          ActiveRegs(22532, <<42405, BIT(14), 0>>, CtrlDefaults))

NextFrequency ==
  \E t \in Threads : SetFrequency(t) \/ UpdateRegRead(t) \/ UpdateRegWrite(t)

SpecFrequency == InitFrequency /\ [][NextFrequency]_vars

\* rda5807_vidioc_g_tuner with a->index = 0, on every 16-bit content of
\* SEEK_RESULT and on every 16-bit content of SIGNAL
InitTuner ==
  \E seek \in BOOLEAN, v \in U16 :
    Bench([Idle EXCEPT !.pc = "g_tuner", !.op = "g_tuner"],
          ChipRegs(22532, IF seek THEN <<42405, v, 42 * BIT(9) + 1>>
                                  ELSE <<42405, BIT(14), v>>))

NextTuner == \E t \in Threads : VidiocGTuner(t) \/ VidiocGTunerSignal(t)

SpecTuner == InitTuner /\ [][NextTuner]_vars

\* the five encoders on every in-domain argument: enable and mute in 0..1,
\* volume in 0..15, de-emphasis 50 us or 75 us, every frequency of the band in
\* kHz; all registers hold cur
InitEncoders ==
  \E cur \in ContentArgs :
    \/ \E x \in 0 .. 1 :
         \/ Bench(CallSetEnable([Idle EXCEPT !.op = "set_enable"], x, "done"),
                  [r \in Regs |-> cur])
         \/ Bench(CallSetMute([Idle EXCEPT !.op = "set_mute"], x, "done"),
                  [r \in Regs |-> cur])
    \/ \E volume \in 0 .. 15 :
         Bench(CallSetVolume([Idle EXCEPT !.op = "set_volume"], volume, "done"),
               [r \in Regs |-> cur])
    \/ \E preemp \in { V4L2_PREEMPHASIS_50_uS, V4L2_PREEMPHASIS_75_uS } :
         Bench(CallSetPreemphasis([Idle EXCEPT !.op = "set_preemphasis"],
                                  preemp, "done"),
               [r \in Regs |-> cur])
    \/ \E khz \in RDA5807_FREQ_MIN_KHZ .. RDA5807_FREQ_MAX_KHZ :
         Bench([Idle EXCEPT !.pc = "set_frequency", !.op = "set_frequency",
                            !.khz = khz],
               [r \in Regs |-> cur])

NextEncoders ==
  \E t \in Threads : SetFrequency(t) \/ UpdateRegRead(t) \/ UpdateRegWrite(t)

SpecEncoders == InitEncoders /\ [][NextEncoders]_vars

----------------------------------------------------------------------------
(* Properties *)

\* bit n of v, by arithmetic
Bit(v, n) == (v \div (2 ^ n)) % 2

\* caller t has returned from operation op
Returned(t, op) == th[t].op = op /\ th[t].pc = "done"

\* C1: after rda5807_update_reg(reg, mask, val) returns 0, with no other writer
\* in between, the register holds (val & mask) | (current & ~mask): every bit
\* inside mask is val's bit, every bit outside mask is the bit that was read.
C1_MaskedMerge ==
  \A t \in Threads :
    (Returned(t, "update_reg") /\ th[t].ret = 0) =>
      \A n \in 0 .. 15 :
        Bit(regs[th[t].reg], n) =
          IF Bit(th[t].mask, n) = 1 THEN Bit(th[t].arg, n)
          ELSE Bit(th[t].log[1].res, n)

\* C2: a suspend (ENABLE update on CTRL) and a mute change (DMUTE update on
\* CTRL) that ran concurrently have both returned 0: CTRL holds the DMUTE value
\* the mute change asked for, and, when the mute change asked for the same
\* ENABLE value as suspend, that ENABLE value.
C2_ConcurrentUpdatesBothTakeEffect ==
  \A t, u \in Threads :
    ( /\ Returned(t, "suspend") /\ th[t].ret = 0
      /\ Returned(u, "s_ctrl") /\ th[u].ctl = V4L2_CID_AUDIO_MUTE /\ th[u].ret = 0 )
    => /\ Bit(regs[RDA5807_REG_CTRL], 14) = LNot(th[u].cval)
       /\ th[u].cval = 1 => Bit(regs[RDA5807_REG_CTRL], 0) = 0

\* the registers every behaviour of SpecFrequency starts with
BenchRegs == ActiveRegs(22532, <<42405, BIT(14), 0>>, CtrlDefaults)

\* C3: rda5807_set_frequency with freq_khz below 76000 or above 108000 returns
\* -ERANGE without any bus transaction and leaves every register as it was;
\* with freq_khz in [76000, 108000] it goes on to the read-modify-write of CHAN.
C3_RangeRejection ==
  \A t \in Threads :
    (th[t].op = "set_frequency" /\ th[t].pc # "set_frequency") =>
      IF th[t].khz < 76000 \/ th[t].khz > 108000
      THEN /\ th[t].pc = "done"
           /\ th[t].ret = -ERANGE
           /\ th[t].log = <<>>
           /\ regs = BenchRegs
      ELSE /\ th[t].fn = "set_frequency"
           /\ th[t].reg = RDA5807_REG_CHAN
           /\ th[t].pc \in { "update_reg", "update_reg_write", "done" }
           /\ th[t].pc = "done" =>
                /\ th[t].ret # -ERANGE
                /\ th[t].log # <<>>
                /\ th[t].log[1].kind = "read"
                /\ th[t].log[1].reg = RDA5807_REG_CHAN

\* C3's case: 108001 kHz has been rejected
C3_Witness ==
  \E t \in Threads :
    Returned(t, "set_frequency") /\ th[t].khz = 108001 /\ th[t].ret = -ERANGE

\* a->frequency in kHz by exact arithmetic: 625 / 10000 is 1 / 16
ExactKhz(f) == f[1] * 4096 + f[2] \div 16

\* C4: for tuner 0 the kHz value rda5807_vidioc_s_frequency hands to the encoder
\* is a->frequency * 625 / 10000 in exact arithmetic, so every argument whose
\* exact value is outside [76000, 108000] returns -ERANGE with no bus I/O.
C4_ExactConversion ==
  \A t \in Threads :
    (th[t].op = "s_frequency" /\ th[t].index = 0 /\ th[t].type = V4L2_TUNER_RADIO
       /\ th[t].pc # "s_frequency") =>
      /\ th[t].khz = ExactKhz(th[t].freq)
      /\ ( /\ th[t].pc # "set_frequency"
           /\ (ExactKhz(th[t].freq) < 76000 \/ ExactKhz(th[t].freq) > 108000) )
         => /\ th[t].pc = "done"
            /\ th[t].ret = -ERANGE
            /\ th[t].log = <<>>

\* C5: for f in [76000, 108000] the channel index in the value the encoder
\* passes on is (f - 76000 + 25) / 50, it is at most 640 and the shifted index
\* stays within 16 bits, and 76000 + 50 * index is within 25 kHz of f.
C5_RoundTrip ==
  \A t \in Threads :
    (th[t].op = "set_frequency" /\ th[t].pc # "set_frequency"
       /\ th[t].khz >= 76000 /\ th[t].khz <= 108000) =>
      LET index == th[t].arg \div 64 IN
      /\ index = (th[t].khz - 76000 + 25) \div 50
      /\ index \in 0 .. 640
      /\ th[t].arg < 65536
      /\ 76000 + 50 * index - th[t].khz \in -25 .. 25

\* C5's case: 76025 kHz is encoded as channel 1, which decodes to 76050 kHz
C5_Witness ==
  \E t \in Threads :
    /\ Returned(t, "set_frequency") /\ th[t].ret = 0
    /\ th[t].khz = 76025
    /\ regs[RDA5807_REG_CHAN] \div 64 = 1

\* the log entries that function fn issued
IssuedBy(log, fn) ==
  LET Test(e) == e.fn = fn IN SelectSeq(log, Test)

\* entries x are one rda5807_update_reg on CTRL: a read, and a write exactly
\* when the read succeeded
OneUpdateOfCtrl(x) ==
  /\ Len(x) \in 1 .. 2
  /\ x[1].kind = "read" /\ x[1].reg = RDA5807_REG_CTRL
  /\ Len(x) = 2 <=> x[1].res >= 0
  /\ Len(x) = 2 => x[2].kind = "write" /\ x[2].reg = RDA5807_REG_CTRL

\* what the update returned: its last transaction's result
UpdateResult(x) == x[Len(x)].res

\* C6: a mute control change issues the enable update's bus transactions on
\* CTRL before the DMUTE update's; the DMUTE update is attempted whatever the
\* enable update returned; the call returns the enable update's error if it
\* is non-zero, else the DMUTE update's result.
C6_MuteOrdering ==
  \A t \in Threads :
    (th[t].op = "s_ctrl" /\ th[t].ctl = V4L2_CID_AUDIO_MUTE) =>
      LET en == IssuedBy(th[t].log, "set_enable")
          mu == IssuedBy(th[t].log, "set_mute")
      IN  /\ th[t].log = en \o mu
          /\ th[t].pc = "done" =>
               /\ OneUpdateOfCtrl(en)
               /\ OneUpdateOfCtrl(mu)
               /\ Len(en) = 2 => Bit(en[2].val, 0) = LNot(th[t].cval)
               /\ Len(mu) = 2 => Bit(mu[2].val, 14) = LNot(th[t].cval)
               /\ th[t].ret = IF UpdateResult(en) # 0 THEN UpdateResult(en)
                              ELSE UpdateResult(mu)

\* C6's case: the enable update failed at its read with -EIO, the DMUTE update
\* was still made and failed at its write with another error, and -EIO came back
C6_Witness ==
  \E t \in Threads :
    /\ Returned(t, "s_ctrl") /\ th[t].ctl = V4L2_CID_AUDIO_MUTE
    /\ Len(th[t].log) = 3
    /\ th[t].log[1].fn = "set_enable" /\ th[t].log[1].res = -EIO
    /\ th[t].log[3].fn = "set_mute" /\ th[t].log[3].kind = "write"
    /\ th[t].log[3].res = -6
    /\ th[t].ret = -EIO

\* C7: the first bus transaction of probe is a read of the chip-ID register and
\* nothing is allocated before it; if it fails, or the value's high byte is not
\* 0x58, probe returns the read's error, respectively -ENODEV, with that read
\* as its only bus transaction, nothing allocated or registered, and the
\* session not active.
C7_ChipIdGate ==
  \A t \in Threads :
    th[t].op = "probe" =>
      /\ th[t].pc = "probe" => th[t].log = <<>> /\ res = {}
      /\ th[t].pc = "probe_alloc" => Len(th[t].log) = 1 /\ res = {}
      /\ th[t].log # <<>> =>
           LET first == th[t].log[1] IN
           /\ first.kind = "read" /\ first.reg = RDA5807_REG_CHIPID
           /\ (first.res < 0 \/ first.res \div 256 # 88) =>
                /\ th[t].pc = "done"
                /\ th[t].ret = IF first.res < 0 THEN first.res ELSE -ENODEV
                /\ Len(th[t].log) = 1
                /\ res = {}
                /\ sess = "Uninitialized"

\* C7's case: the chip answered 0x0058 and probe returned -ENODEV
C7_Witness ==
  \E t \in Threads :
    Returned(t, "probe") /\ th[t].log[1].res = 88 /\ th[t].ret = -ENODEV

\* C8: the subchannel mode reported for a SEEK_RESULT value is STEREO alone or
\* MONO alone, after the stereo bit (10), when the complete bit (14) is set and
\* the fail bit (13) is clear, and MONO|STEREO otherwise, whatever the other
\* bits are.
C8_SeekDecode ==
  \A t \in Threads :
    (th[t].op = "g_tuner" /\ th[t].out.written) =>
      LET v == regs[RDA5807_REG_SEEK_RESULT] IN
      th[t].out.rxsubchans =
        IF Bit(v, 14) = 1 /\ Bit(v, 13) = 0
        THEN IF Bit(v, 10) = 1 THEN 2 ELSE 1
        ELSE 3

\* C8's case: every bit but the fail bit is set, and STEREO alone is reported
C8_Witness ==
  \E t \in Threads :
    /\ Returned(t, "g_tuner") /\ th[t].out.written
    /\ regs[RDA5807_REG_SEEK_RESULT] = 65535 - 8192
    /\ th[t].out.rxsubchans = 2

\* C9: the signal level reported for a SIGNAL value is its bits 15..9 times
\* 2^9: at most 65024, with the low 9 bits clear.
C9_SignalScaling ==
  \A t \in Threads :
    (th[t].op = "g_tuner" /\ th[t].out.written) =>
      LET rssi == (regs[RDA5807_REG_SIGNAL] \div 512) % 128 IN
      /\ th[t].out.signal = rssi * 512
      /\ th[t].out.signal <= 65024
      /\ th[t].out.signal % 512 = 0

\* C9's case: SIGNAL holds 0xFFFF and 65024 is reported
C9_Witness ==
  \E t \in Threads :
    /\ Returned(t, "g_tuner") /\ th[t].out.written
    /\ regs[RDA5807_REG_SIGNAL] = 65535
    /\ th[t].out.signal = 65024

\* C10: rda5807_vidioc_g_tuner with index # 0 returns -EINVAL before any read;
\* with index 0 it reads SEEK_RESULT, then SIGNAL only if the first read
\* succeeded; a failed read's error is what it returns, and the caller's
\* descriptor is written only when both reads succeeded.
C10_StatusQueryFailure ==
  \A t \in Threads :
    th[t].op = "g_tuner" =>
      /\ th[t].pc # "done" => ~th[t].out.written
      /\ (th[t].pc = "done" /\ th[t].index # 0) =>
           th[t].ret = -EINVAL /\ th[t].log = <<>> /\ ~th[t].out.written
      /\ (th[t].pc = "done" /\ th[t].index = 0) =>
           LET lg == th[t].log IN
           /\ Len(lg) \in 1 .. 2
           /\ lg[1].kind = "read" /\ lg[1].reg = RDA5807_REG_SEEK_RESULT
           /\ lg[1].res < 0 =>
                Len(lg) = 1 /\ th[t].ret = lg[1].res /\ ~th[t].out.written
           /\ lg[1].res >= 0 =>
                /\ Len(lg) = 2
                /\ lg[2].kind = "read" /\ lg[2].reg = RDA5807_REG_SIGNAL
                /\ lg[2].res < 0 => th[t].ret = lg[2].res /\ ~th[t].out.written
                /\ lg[2].res >= 0 => th[t].ret = 0 /\ th[t].out.written

\* C10's case: SEEK_RESULT was read, the read of SIGNAL failed with -EIO, and
\* -EIO came back with the descriptor unwritten
C10_Witness ==
  \E t \in Threads :
    /\ Returned(t, "g_tuner")
    /\ Len(th[t].log) = 2 /\ th[t].log[1].res >= 0 /\ th[t].log[2].res = -EIO
    /\ th[t].ret = -EIO /\ ~th[t].out.written

\* log is exactly one rda5807_update_reg on CTRL made by rda5807_set_enable,
\* whose write, if it was issued, carries the value read with bit 0 (ENABLE)
\* replaced by enable and every other bit as read
OneEnableUpdate(log, enable) ==
  /\ OneUpdateOfCtrl(log)
  /\ \A i \in 1 .. Len(log) : log[i].fn = "set_enable"
  /\ Len(log) = 2 =>
       /\ Bit(log[2].val, 0) = enable
       /\ \A n \in 1 .. 15 : Bit(log[2].val, n) = Bit(log[1].res, n)

\* C11: a returned suspend has made exactly one read-modify-write, on CTRL,
\* that clears ENABLE and keeps every other bit.  A returned resume has made no
\* bus transaction and returned 0 if the mute control holds muted, and else
\* exactly one read-modify-write on CTRL that sets ENABLE and keeps every other
\* bit.  Neither touches another register.
C11_SuspendResume ==
  \A t \in Threads :
    /\ Returned(t, "suspend") =>
         /\ OneEnableUpdate(th[t].log, 0)
         /\ th[t].ret = UpdateResult(th[t].log)
         /\ th[t].ret = 0 => regs[RDA5807_REG_CTRL] = th[t].log[2].val
    /\ Returned(t, "resume") =>
         IF ctrl.mute # 0
         THEN th[t].log = <<>> /\ th[t].ret = 0
         ELSE /\ OneEnableUpdate(th[t].log, 1)
              /\ th[t].ret = UpdateResult(th[t].log)
              /\ th[t].ret = 0 => regs[RDA5807_REG_CTRL] = th[t].log[2].val

\* C11's case: an unmuted session was suspended and its resume has set ENABLE
\* with one read and one write
C11_Witness ==
  \E t \in Threads :
    /\ Returned(t, "resume") /\ ctrl.mute = 0 /\ th[t].ret = 0
    /\ Len(th[t].log) = 2 /\ Bit(th[t].log[1].res, 0) = 0
    /\ Bit(regs[RDA5807_REG_CTRL], 0) = 1

\* probe has returned 0 to caller t
ProbeSucceeded(t) == Returned(t, "probe") /\ th[t].ret = 0

\* the functions whose bus transactions make up log, in order
IssuersOf(log) == [i \in 1 .. Len(log) |-> log[i].fn]

\* C12 as stated: after a successful probe the controls hold mute in 0..1,
\* volume 8 in 0..15 and de-emphasis 75 us, the volume field of
\* INTM_THRESH_VOL is 8 and the DEEMPHASIS bit of IOCFG is clear.
C12_DefaultsAsStated ==
  \A t \in Threads :
    ProbeSucceeded(t) =>
      /\ ctrl.volume = 8 /\ ctrl.preemphasis = V4L2_PREEMPHASIS_75_uS
      /\ regs[RDA5807_REG_INTM_THRESH_VOL] % 16 = 8
      /\ Bit(regs[RDA5807_REG_IOCFG], 11) = 0

\* C12, amended: after a successful probe the controls hold mute 1 (of 0..1),
\* volume 8 (of 0..15) and de-emphasis 50 us (of 50 us, 75 us); each default
\* went through its encoder, in creation order; the volume field of
\* INTM_THRESH_VOL is 8 and the DEEMPHASIS bit of IOCFG is set (50 us).
C12_DefaultsReachDevice ==
  \A t \in Threads :
    ProbeSucceeded(t) =>
      /\ ctrl = [mute |-> 1, volume |-> 8, preemphasis |-> 1]
      /\ CtrlRange(V4L2_CID_AUDIO_MUTE) = 0 .. 1
      /\ CtrlRange(V4L2_CID_AUDIO_VOLUME) = 0 .. 15
      /\ CtrlRange(V4L2_CID_TUNE_PREEMPHASIS) = { 1, 2 }
      /\ IssuersOf(th[t].log) =
           << "probe", "set_enable", "set_enable", "set_mute", "set_mute",
              "set_volume", "set_volume", "set_preemphasis", "set_preemphasis" >>
      /\ regs[RDA5807_REG_INTM_THRESH_VOL] % 16 = 8
      /\ Bit(regs[RDA5807_REG_IOCFG], 11) = 1

\* C12's case: probe succeeded on a chip whose registers held 0, and the
\* defaults are what IOCFG and INTM_THRESH_VOL now hold
C12_Witness ==
  \E t \in Threads :
    /\ ProbeSucceeded(t)
    /\ regs[RDA5807_REG_IOCFG] = 2048
    /\ regs[RDA5807_REG_INTM_THRESH_VOL] = 8

\* caller t is inside rda5807_update_reg, or has returned from it
InUpdateReg(t) ==
  \/ th[t].pc \in { "update_reg", "update_reg_write" }
  \/ th[t].pc = "done" /\ th[t].log # <<>>

\* C13: the value an encoder hands to rda5807_update_reg for an in-domain
\* argument has no bit outside the encoder's mask; after the encoder returned
\* 0, the bits of its register outside the mask are the bits that were read,
\* and every other register holds what it held before.
C13_NoClobber ==
  \A t \in Threads :
    InUpdateReg(t) =>
      /\ BitAnd(th[t].arg, Not16(th[t].mask)) = 0
      /\ (th[t].pc = "done" /\ th[t].ret = 0) =>
           LET before == th[t].log[1].res IN
           /\ \A n \in 0 .. 15 :
                Bit(th[t].mask, n) = 0 =>
                  Bit(regs[th[t].reg], n) = Bit(before, n)
           /\ \A r \in Regs \ { th[t].reg } : regs[r] = before

\* C13's case: volume 15 was set on a register that held 0xA5A5; the volume
\* field is 15 and the upper twelve bits are as they were
C13_Witness ==
  \E t \in Threads :
    /\ Returned(t, "set_volume") /\ th[t].ret = 0
    /\ th[t].log[1].res = 42405
    /\ regs[RDA5807_REG_INTM_THRESH_VOL] = 42415

\* a transfer that completed fewer messages than asked is reported as -EIO
ShortTransferIsEIO ==
  /\ \A x \in 0 .. 1, v \in ContentArgs : I2cReadResult(x, v) = -5
  /\ I2cWriteResult(0) = -5

\* what rda5807_update_reg has put on the bus and returned
UpdateRegOutcome(t) ==
  LET lg == th[t].log IN
  /\ Len(lg) <= 2
  /\ \A i \in 1 .. Len(lg) :
       /\ lg[i].reg = th[t].reg
       /\ lg[i].kind = IF i = 1 THEN "read" ELSE "write"
       /\ lg[i].res < 0 => lg[i].res \in BusErrors \cup { -5 }
  /\ th[t].pc = "update_reg" => lg = <<>>
  /\ th[t].pc = "update_reg_write" =>
       Len(lg) = 1 /\ lg[1].res \in 0 .. 65535 /\ lg[1].res = regs[th[t].reg]
  /\ th[t].pc = "done" =>
       /\ Len(lg) >= 1
       /\ lg[1].res < 0 => Len(lg) = 1 /\ th[t].ret = lg[1].res
       /\ lg[1].res >= 0 =>
            /\ Len(lg) = 2 /\ th[t].ret = lg[2].res
            /\ lg[2].res \in BusErrors \cup { -5, 0 }
            /\ regs[th[t].reg] = IF lg[2].res = 0 THEN lg[2].val ELSE lg[1].res

\* C14: rda5807_update_reg issues at most one read and then at most one write
\* of its register; a failed read (a bus error, or -EIO for a short transfer)
\* is returned with no write issued and no register changed; a failed write's
\* error is returned and the register keeps its content; a read that succeeded
\* gives a value in 0..65535 and is followed by the write.
C14_RmwErrorHandling ==
  /\ [](ShortTransferIsEIO /\ \A t \in Threads :
          th[t].op = "update_reg" => UpdateRegOutcome(t))
  /\ [][\A t \in Threads :
          (th[t].pc = "update_reg" /\ th'[t].pc = "done") => regs' = regs]_vars

\* C14's case: the read completed one message of two, -EIO came back and no
\* write followed
C14_Witness ==
  \E t \in Threads :
    /\ Returned(t, "update_reg") /\ th[t].ret = -5
    /\ Len(th[t].log) = 1 /\ th[t].log[1].kind = "read"

\* C15: after rda5807_set_frequency(f) returned 0, f in the band, CHAN holds
\* spacing 2 (bits 1..0), band 2 (bits 3..2), TUNE (bit 4) set and WRCHAN
\* (bits 15..6) = (f - 76000 + 25) / 50, whatever it held before; bit 5 is the
\* one bit it keeps from before.
C15_TuneEncoding ==
  \A t \in Threads :
    (Returned(t, "set_frequency") /\ th[t].ret = 0) =>
      LET before == th[t].log[1].res
          wrchan == (th[t].khz - 76000 + 25) \div 50
      IN  /\ th[t].khz \in 76000 .. 108000
          /\ regs[RDA5807_REG_CHAN] =
               wrchan * 64 + Bit(before, 5) * 32 + 16 + 2 * 4 + 2

\* C15's case: 98000 kHz was tuned on a CHAN register that held 0xFFFF; the
\* register holds index 440, bit 5 as before, TUNE, band 2, spacing 2
C15_Witness ==
  \E t \in Threads :
    /\ Returned(t, "set_frequency") /\ th[t].ret = 0
    /\ th[t].khz = 98000 /\ th[t].log[1].res = 65535
    /\ regs[RDA5807_REG_CHAN] = 440 * 64 + 32 + 16 + 8 + 2

\* the control a returned call changed: a control id, or "frequency"
ChangedControl(t) ==
  CASE th[t].op = "s_ctrl" -> th[t].ctl
    [] th[t].op = "s_frequency" -> "frequency"
    [] OTHER -> "none"

\* the registers hold what the call of t asked for
TookEffect(t) ==
  CASE ChangedControl(t) = V4L2_CID_AUDIO_MUTE ->
         /\ Bit(regs[RDA5807_REG_CTRL], 0) = LNot(th[t].cval)
         /\ Bit(regs[RDA5807_REG_CTRL], 14) = LNot(th[t].cval)
    [] ChangedControl(t) = V4L2_CID_AUDIO_VOLUME ->
         regs[RDA5807_REG_INTM_THRESH_VOL] % 16 = th[t].cval
    [] ChangedControl(t) = V4L2_CID_TUNE_PREEMPHASIS ->
         Bit(regs[RDA5807_REG_IOCFG], 11) = IF th[t].cval = 1 THEN 1 ELSE 0
    [] ChangedControl(t) = "frequency" ->
         /\ regs[RDA5807_REG_CHAN] \div 64 = (th[t].khz - 76000 + 25) \div 50
         /\ regs[RDA5807_REG_CHAN] % 32 = 16 + 8 + 2
    [] OTHER -> TRUE

\* C16: two callers changed two different controls (mute, volume,
\* de-emphasis, frequency) concurrently and both calls returned 0: under every
\* interleaving of their bus reads and writes the registers hold both
\* requested values.
C16_DifferentControlsRace ==
  \A t, u \in Threads :
    ( /\ t # u
      /\ th[t].pc = "done" /\ th[t].ret = 0 /\ ChangedControl(t) # "none"
      /\ th[u].pc = "done" /\ th[u].ret = 0 /\ ChangedControl(u) # "none"
      /\ ChangedControl(t) # ChangedControl(u) )
    => TookEffect(t) /\ TookEffect(u)

\* C16's case: one caller set the volume to 15 while the other unmuted, both
\* returned 0, and the registers show both
C16_Witness ==
  \E t, u \in Threads :
    /\ Returned(t, "s_ctrl") /\ th[t].ctl = V4L2_CID_AUDIO_VOLUME
    /\ th[t].cval = 15 /\ th[t].ret = 0
    /\ Returned(u, "s_ctrl") /\ th[u].ctl = V4L2_CID_AUDIO_MUTE
    /\ th[u].cval = 0 /\ th[u].ret = 0
    /\ regs[RDA5807_REG_INTM_THRESH_VOL] % 16 = 15
    /\ Bit(regs[RDA5807_REG_CTRL], 0) = 1 /\ Bit(regs[RDA5807_REG_CTRL], 14) = 1

\* C17: a returned probe has either returned 0 with the driver object, the
\* control set and the video device all in place and the session active, or a
\* negative error with none of them left, at whichever point it failed; a
\* returned remove has released all three without a bus transaction, and the
\* session is active or suspended only with all three in place.
C17_ProbeAllOrNothing ==
  /\ \A t \in Threads :
       /\ Returned(t, "probe") =>
            IF th[t].ret = 0
            THEN res = { "radio", "ctrl_handler", "video_dev" } /\ sess = "Active"
            ELSE th[t].ret < 0 /\ res = {} /\ sess = "Uninitialized"
       /\ Returned(t, "remove") =>
            th[t].ret = 0 /\ th[t].log = <<>> /\ res = {} /\ sess = "Removed"
       /\ sess = "Removed" => th[t].log = <<>>
  /\ sess \in { "Active", "Suspended" } =>
       res = { "radio", "ctrl_handler", "video_dev" }
  /\ sess \in { "Uninitialized", "Removed" } => res = {}

\* C17's case: probe failed while the default volume was being pushed, after
\* the device was registered and the mute default written, and nothing is left
C17_Witness ==
  \E t \in Threads :
    /\ Returned(t, "probe") /\ th[t].ret < 0
    /\ Len(th[t].log) >= 6
    /\ th[t].log[Len(th[t].log)].fn = "set_volume"
    /\ res = {} /\ sess = "Uninitialized"

\* nobody is inside the driver
Quiescent == \A t \in Threads : th[t].pc \in { "idle", "done" }

\* C18: from a successful probe on, after any sequence of successful control
\* and frequency changes, suspends and resumes made one at a time, an active
\* session has ENABLE = DMUTE = NOT(mute control value) in CTRL.
C18_EnableFollowsMute ==
  (Quiescent /\ sess = "Active") =>
    /\ Bit(regs[RDA5807_REG_CTRL], 0) = LNot(ctrl.mute)
    /\ Bit(regs[RDA5807_REG_CTRL], 14) = LNot(ctrl.mute)

\* C18's case: the session was unmuted, suspended and resumed, and is enabled
\* and unmuted again
C18_Witness ==
  \E t \in Threads :
    /\ Returned(t, "resume") /\ Len(th[t].log) = 2
    /\ sess = "Active" /\ ctrl.mute = 0
    /\ Bit(regs[RDA5807_REG_CTRL], 0) = 1
    /\ Bit(regs[RDA5807_REG_CTRL], 14) = 1

\* the registers of log's write transactions
WrittenRegs(log) ==
  { log[i].reg : i \in { j \in 1 .. Len(log) : log[j].kind = "write" } }

\* C19: every register write the driver issues addresses CTRL (2), CHAN (3),
\* IOCFG (4) or INTM_THRESH_VOL (5); CHIPID (0), SEEK_RESULT (10) and SIGNAL
\* (11) are read and never change; rda5807_vidioc_g_audio,
\* rda5807_vidioc_g_tuner and rda5807_i2c_remove issue no write.
C19_WriteFootprint ==
  /\ [](\A t \in Threads :
          /\ WrittenRegs(th[t].log) \subseteq { 2, 3, 4, 5 }
          /\ th[t].op \in { "g_audio", "g_tuner", "remove" } =>
               WrittenRegs(th[t].log) = {})
  /\ [][\A r \in { 0, 10, 11 } : regs'[r] = regs[r]]_vars

\* C19's case: a successful probe has read CHIPID and written CTRL, IOCFG and
\* INTM_THRESH_VOL
C19_Witness ==
  \E t \in Threads :
    /\ ProbeSucceeded(t)
    /\ th[t].log[1].kind = "read" /\ th[t].log[1].reg = 0
    /\ WrittenRegs(th[t].log) = { 2, 4, 5 }

====
